---------------------------- MODULE Spec2Model ----------------------------
(***************************************************************************)
(* A model of product2db.py: the mosaicking and georeferencing script for  *)
(* GIO tiles.  Five parts of the script are modelled, each with its own    *)
(* specification over the shared variables:                                *)
(*                                                                         *)
(*   SpecBounds      _calculate_bounds, as called by _georeference_tiles   *)
(*   SpecExtract     _extract_metadata: the scan of gdalinfo's text and    *)
(*                   the closing call of _parse_metadata                   *)
(*   SpecParse       _parse_metadata on metadata dictionaries of any shape *)
(*   SpecMerge       _merge_tiles: grouping and the gdal_merge calls       *)
(*   SpecGlobalMeta  _get_global_meta: the lookup loop over a listing      *)
(*                                                                         *)
(* Text (paths, lines, keys, values) is a sequence of one-character        *)
(* strings, and every regular expression of the script is an operator      *)
(* computing the match on those characters.                                *)
(***************************************************************************)
EXTENDS Integers, Sequences, FiniteSets, TLC

VARIABLES
    \* _calculate_bounds
    b_pc, b_args, b_result,
    \* _extract_metadata
    e_pc, gdalinfo, lineno, start_md_line, metadata, e_err, added,
    \* _parse_metadata
    p_pc, p_in, p_out,
    \* _merge_tiles
    m_pc, tiles, product, datasets, idx, m_err, info_calls, merges, mosaics,
    \* _get_global_meta
    g_pc, global_product, working_dir, all_files, count, found_one, meta,
    global_meta, inspected, g_err

varsBounds == <<b_pc, b_args, b_result>>
varsExtract == <<e_pc, gdalinfo, lineno, start_md_line, metadata, e_err, added>>
varsParse == <<p_pc, p_in, p_out>>
varsMerge == <<m_pc, tiles, product, datasets, idx, m_err, info_calls, merges,
               mosaics>>
varsGlobalMeta == <<g_pc, global_product, working_dir, all_files, count,
                    found_one, meta, global_meta, inspected, g_err>>
vars == <<varsBounds, varsExtract, varsParse, varsMerge, varsGlobalMeta>>

(***************************************************************************)
(* Bounds of the model.                                                    *)
(***************************************************************************)
MaxCoord == 2      \* first_lon, first_lat range over -MaxCoord..MaxCoord
MaxDim == 2        \* n_cols, n_lines range over -1..MaxDim
MaxPixel == 2      \* pixel_size ranges over -1..MaxPixel

(***************************************************************************)
(* Text helpers.                                                           *)
(***************************************************************************)
Range(s) == {s[i] : i \in DOMAIN s}

\* s[a..b], empty when b < a
Slice(s, a, b) == IF b < a THEN <<>> ELSE SubSeq(s, a, b)

\* lit occurs in s starting at position i
LitAt(s, i, lit) ==
    /\ i >= 1
    /\ i + Len(lit) - 1 <= Len(s)
    /\ \A k \in 1..Len(lit) : s[i + k - 1] = lit[k]

Min(S) == CHOOSE x \in S : \A y \in S : x <= y
Max(S) == CHOOSE x \in S : \A y \in S : x >= y

Digits == {"0", "1", "2", "3", "4", "5", "6", "7", "8", "9"}
Letters == {"a", "b", "c", "d", "e", "f", "g", "h", "i", "j", "k", "l", "m",
            "n", "o", "p", "q", "r", "s", "t", "u", "v", "w", "x", "y", "z",
            "A", "B", "C", "D", "E", "F", "G", "H", "I", "J", "K", "L", "M",
            "N", "O", "P", "Q", "R", "S", "T", "U", "V", "W", "X", "Y", "Z"}
\* \w and \s of Python's re
WordChars == Letters \cup Digits \cup {"_"}
Whitespace == {" ", "\t"}

(***************************************************************************)
(* _calculate_bounds.  A coordinate is an exact rational held as its       *)
(* numerator over the denominator Den, the 2.0 of "pixel_size / 2.0"; the  *)
(* arguments are whole numbers.  Rounding of doubles is not modelled.      *)
(***************************************************************************)
Den == 2

\* a faulty variant: the lower-right edge as a multiple of the upper-left edge
_calculate_bounds_multiplicative(first_lon, first_lat, n_cols, n_lines, pixel_size) ==
    LET upper_left_lon == Den * first_lon - pixel_size
        upper_left_lat == Den * first_lat + pixel_size
        lower_right_lon == upper_left_lon * n_cols
        lower_right_lat == (0 - upper_left_lat) * n_lines
    IN  <<upper_left_lon, upper_left_lat, lower_right_lon, lower_right_lat>>

_calculate_bounds(first_lon, first_lat, n_cols, n_lines, pixel_size) ==
    LET upper_left_lon == Den * first_lon - pixel_size
        upper_left_lat == Den * first_lat + pixel_size
        lower_right_lon == upper_left_lon + Den * (n_cols * pixel_size)
        lower_right_lat == upper_left_lat - Den * (n_lines * pixel_size)
    IN  <<upper_left_lon, upper_left_lat, lower_right_lon, lower_right_lat>>

BoundsArgs ==
    [first_lon : -MaxCoord..MaxCoord, first_lat : -MaxCoord..MaxCoord,
     n_cols : -1..MaxDim, n_lines : -1..MaxDim, pixel_size : -1..MaxPixel]

NoBounds == [error |-> "none", returned |-> FALSE, bounds |-> <<0, 0, 0, 0>>]

\* the call in _georeference_tiles and its return: no argument is checked
CalculateBounds ==
    /\ b_pc = "call"
    /\ b_result' = [error |-> "none", returned |-> TRUE,
                    bounds |-> _calculate_bounds(b_args.first_lon,
                                   b_args.first_lat, b_args.n_cols,
                                   b_args.n_lines, b_args.pixel_size)]
    /\ b_pc' = "done"
    /\ UNCHANGED <<b_args, varsExtract, varsParse, varsMerge, varsGlobalMeta>>


(***************************************************************************)
(* Metadata values.  A value of a metadata dictionary is a string as read  *)
(* from gdalinfo's text or the integer int() made of it.                   *)
(***************************************************************************)
StrVal(s) == [kind |-> "str", s |-> s, n |-> 0]
IntVal(n) == [kind |-> "int", s |-> <<>>, n |-> n]

\* a dictionary d with d[k] = v set
Put(d, k, v) == (k :> v) @@ d
EmptyDict == <<>>

DigitVal(c) ==
    CASE c = "0" -> 0 [] c = "1" -> 1 [] c = "2" -> 2 [] c = "3" -> 3
      [] c = "4" -> 4 [] c = "5" -> 5 [] c = "6" -> 6 [] c = "7" -> 7
      [] c = "8" -> 8 [] c = "9" -> 9

RECURSIVE DecimalVal(_)
DecimalVal(s) ==
    IF s = <<>> THEN 0
    ELSE 10 * DecimalVal(SubSeq(s, 1, Len(s) - 1)) + DigitVal(s[Len(s)])

\* s without its leading and trailing whitespace
Strip(s) ==
    LET black == {i \in DOMAIN s : s[i] \notin Whitespace}
    IN  IF black = {} THEN <<>> ELSE SubSeq(s, Min(black), Max(black))

\* int(s) of a string: blanks around an optional sign and decimal digits;
\* anything else raises ValueError
IntOfStr(s) ==
    LET t == Strip(s)
        signed == t # <<>> /\ t[1] \in {"-", "+"}
        digits == IF signed THEN Slice(t, 2, Len(t)) ELSE t
    IN  IF digits # <<>> /\ Range(digits) \subseteq Digits
        THEN [ok |-> TRUE,
              n |-> IF signed /\ t[1] = "-" THEN 0 - DecimalVal(digits)
                    ELSE DecimalVal(digits)]
        ELSE [ok |-> FALSE, n |-> 0]

\* whether int(v) raises
IntRaises(v) == v.kind = "str" /\ ~IntOfStr(v.s).ok
\* int(v): an integer stays as it is
IntOf(v) == IF v.kind = "int" THEN v ELSE IntVal(IntOfStr(v.s).n)

(***************************************************************************)
(* The regular expressions of the metadata extraction.                     *)
(***************************************************************************)
\* the number of leading characters of s that are in set cs
RunLen(s, cs) ==
    IF \A i \in DOMAIN s : s[i] \in cs THEN Len(s)
    ELSE Min({i \in DOMAIN s : s[i] \notin cs}) - 1

\* the end of the longest run of characters of cs in s that starts at i
\* (i - 1 when s[i] is not in cs)
RunEnd(s, i, cs) == i - 1 + RunLen(Slice(s, i, Len(s)), cs)

NoMatch == [matched |-> FALSE, key |-> <<>>, value |-> <<>>]

\* re.search(r'^\s+(?P<key>\w+)=(?P<value>.*)$', line)
KeyValueLine(line) ==
    LET ws == RunLen(line, Whitespace)
        k == RunEnd(line, ws + 1, WordChars)
    IN  IF ws >= 1 /\ k >= ws + 1 /\ k + 1 <= Len(line) /\ line[k + 1] = "="
        THEN [matched |-> TRUE, key |-> SubSeq(line, ws + 1, k),
              value |-> Slice(line, k + 2, Len(line))]
        ELSE NoMatch

MetadataLabel == <<"M", "e", "t", "a", "d", "a", "t", "a", ":">>

\* re.search('^\s*Metadata:\s*$', line) is not None
IsMetadataLabel(line) == Strip(line) = MetadataLabel

SubdatasetLit == <<"S", "U", "B", "D", "A", "T", "A", "S", "E", "T", "_">>
NameLit == <<"_", "N", "A", "M", "E", "=">>

\* re.search(r'^\s+SUBDATASET_\d+_NAME=(.*)', line): key is unused, value is
\* group 1
SubdatasetLine(line) ==
    LET ws == RunLen(line, Whitespace)
        d == RunEnd(line, ws + 1 + Len(SubdatasetLit), Digits)
    IN  IF /\ ws >= 1
           /\ LitAt(line, ws + 1, SubdatasetLit)
           /\ d >= ws + 1 + Len(SubdatasetLit)
           /\ LitAt(line, d + 1, NameLit)
        THEN [matched |-> TRUE, key |-> <<>>,
              value |-> Slice(line, d + 1 + Len(NameLit), Len(line))]
        ELSE NoMatch

\* re.search(r'//(\w+)', ds_path): value is group 1, of the leftmost match
DsNameOf(ds_path) ==
    LET starts == {i \in DOMAIN ds_path :
                     /\ LitAt(ds_path, i, <<"/", "/">>)
                     /\ i + 2 <= Len(ds_path)
                     /\ ds_path[i + 2] \in WordChars}
    IN  IF starts = {} THEN NoMatch
        ELSE LET i == Min(starts)
             IN  [matched |-> TRUE, key |-> <<>>,
                  value |-> SubSeq(ds_path, i + 2,
                                   RunEnd(ds_path, i + 2, WordChars))]

PathKey == <<"p", "a", "t", "h">>

\* _extract_subdataset_paths, over the lines from line i on, added to the
\* dictionary acc: a later line of the same name overwrites an earlier one.
\* A path with no //name raises AttributeError (group of None).
RECURSIVE SubdatasetPaths(_, _, _)
SubdatasetPaths(lines, i, acc) ==
    IF i > Len(lines) THEN [error |-> "none", dict |-> acc]
    ELSE LET line_obj == SubdatasetLine(lines[i])
             ds_name == DsNameOf(line_obj.value)
         IN  IF ~line_obj.matched THEN SubdatasetPaths(lines, i + 1, acc)
             ELSE IF ~ds_name.matched
                  THEN [error |-> "AttributeError", dict |-> acc]
                  ELSE SubdatasetPaths(lines, i + 1,
                                       Put(acc, ds_name.value, line_obj.value))

_extract_subdataset_paths(gdalinfo_stdout) ==
    SubdatasetPaths(gdalinfo_stdout, 1, EmptyDict)


BandLit == <<"B", "a", "n", "d", " ">>
BlockLit == <<" ", "B", "l", "o", "c", "k", "=">>
TypeLit == <<" ", "T", "y", "p", "e", "=">>
BlockXKey == <<"b", "l", "o", "c", "k", "_", "x">>
BlockYKey == <<"b", "l", "o", "c", "k", "_", "y">>
DtypeKey == <<"d", "t", "y", "p", "e">>

\* re.search(r'^Band (\d) Block=(\d+)x(\d+) Type=(\w+),', line): the band's
\* number and its properties
BandLine(line) ==
    LET b == Len(BandLit) + 1                      \* the digit
        x1 == b + 1 + Len(BlockLit)                \* block width from here
        x2 == RunEnd(line, x1, Digits)
        y1 == x2 + 2                               \* block height from here
        y2 == RunEnd(line, y1, Digits)
        t1 == y2 + 1 + Len(TypeLit)                \* type from here
        t2 == RunEnd(line, t1, WordChars)
    IN  IF /\ LitAt(line, 1, BandLit)
           /\ b <= Len(line) /\ line[b] \in Digits
           /\ LitAt(line, b + 1, BlockLit)
           /\ x2 >= x1
           /\ LitAt(line, x2 + 1, <<"x">>)
           /\ y2 >= y1
           /\ LitAt(line, y2 + 1, TypeLit)
           /\ t2 >= t1
           /\ LitAt(line, t2 + 1, <<",">>)
        THEN [matched |-> TRUE, key |-> <<line[b]>>,
              value |-> (BlockXKey :> StrVal(SubSeq(line, x1, x2)))
                        @@ (BlockYKey :> StrVal(SubSeq(line, y1, y2)))
                        @@ (DtypeKey :> StrVal(SubSeq(line, t1, t2)))]
        ELSE NoMatch

RECURSIVE BandProperties(_, _, _)
BandProperties(lines, i, acc) ==
    IF i > Len(lines) THEN acc
    ELSE LET line_obj == BandLine(lines[i])
         IN  BandProperties(lines, i + 1,
                            IF line_obj.matched
                            THEN Put(acc, line_obj.key, line_obj.value)
                            ELSE acc)

_extract_band_properties(gdalinfo_stdout) ==
    BandProperties(gdalinfo_stdout, 1, EmptyDict)

SizeLit == <<"S", "i", "z", "e", " ", "i", "s", " ">>
SizeXKey == <<"s", "i", "z", "e", "_", "x">>
SizeYKey == <<"s", "i", "z", "e", "_", "y">>

\* re.search(r'^Size is (\d+), (\d+)', line): key is group 1, value group 2
SizeLine(line) ==
    LET x1 == Len(SizeLit) + 1
        x2 == RunEnd(line, x1, Digits)
        y1 == x2 + 3
        y2 == RunEnd(line, y1, Digits)
    IN  IF /\ LitAt(line, 1, SizeLit)
           /\ x2 >= x1
           /\ LitAt(line, x2 + 1, <<",", " ">>)
           /\ y2 >= y1
        THEN [matched |-> TRUE, key |-> SubSeq(line, x1, x2),
              value |-> SubSeq(line, y1, y2)]
        ELSE NoMatch

\* _extract_size: <<size_x, size_y>>, the integer 0 unless a line gives them
RECURSIVE SizeOf(_, _, _)
SizeOf(lines, i, acc) ==
    IF i > Len(lines) THEN acc
    ELSE LET line_obj == SizeLine(lines[i])
         IN  SizeOf(lines, i + 1,
                    IF line_obj.matched
                    THEN <<StrVal(line_obj.key), StrVal(line_obj.value)>>
                    ELSE acc)

_extract_size(gdalinfo_stdout) ==
    SizeOf(gdalinfo_stdout, 1, <<IntVal(0), IntVal(0)>>)

(***************************************************************************)
(* The metadata dictionary.  file holds the flat keys of the dictionary    *)
(* (size_x and size_y among them); subdatasets and bands are its two       *)
(* nested dictionaries, and an empty one stands for the key being absent:  *)
(* _extract_metadata sets 'subdatasets' and 'bands' only when they are not *)
(* empty.  No modelled text holds a key named subdatasets, bands,          *)
(* PIXEL_SIZE or IMAGE_ACQUISITION_TIME.                                   *)
(***************************************************************************)
NoMetadata == [file |-> EmptyDict, subdatasets |-> EmptyDict, bands |-> EmptyDict]

\* re.sub(pat, '', s) for a literal pat: every occurrence, left to right
RECURSIVE ReSubRemove(_, _)
ReSubRemove(pat, s) ==
    IF s = <<>> THEN <<>>
    ELSE IF LitAt(s, 1, pat)
         THEN ReSubRemove(pat, Slice(s, Len(pat) + 1, Len(s)))
         ELSE <<s[1]>> \o ReSubRemove(pat, Tail(s))

\* re.search(r'^%s' % sds, key) is not None
FoundSds(sds, key) == LitAt(key, 1, sds)

\* the subdatasets of md that the loop of lines 314-319 stores the key under
SdsHits(md, key) == {sds \in DOMAIN md.subdatasets : FoundSds(sds, key)}

\* lines 311-323: where a key=value line of a metadata block is stored.  With
\* no 'subdatasets' in the dictionary the loop raises KeyError and the handler
\* stores the key at file scope.
StoreKeyValue(md, key, value) ==
    IF SdsHits(md, key) = {}
    THEN [md EXCEPT !.file = Put(@, key, StrVal(value))]
    ELSE [md EXCEPT !.subdatasets =
            [sds \in DOMAIN @ |->
                IF sds \in SdsHits(md, key)
                THEN Put(@[sds], ReSubRemove(sds \o <<"_">>, key), StrVal(value))
                ELSE @[sds]]]

(***************************************************************************)
(* _parse_metadata.                                                        *)
(***************************************************************************)
int_fields ==
    << <<"N", "L">>, <<"N", "C">>, <<"N", "_", "C", "O", "L", "S">>,
       <<"N", "_", "L", "I", "N", "E", "S">>,
       <<"M", "I", "S", "S", "I", "N", "G", "_", "V", "A", "L", "U", "E">>,
       <<"S", "C", "A", "L", "I", "N", "G", "_", "F", "A", "C", "T", "O", "R">>,
       <<"F", "I", "R", "S", "T", "_", "L", "A", "T">>,
       <<"F", "I", "R", "S", "T", "_", "L", "O", "N">>,
       SizeXKey, SizeYKey >>

\* the scopes of a nested dictionary that hold field f
Holding(scopes, f) == {s \in DOMAIN scopes : f \in DOMAIN scopes[s]}

\* every scope of a nested dictionary that holds f, with f made an integer
IntInEach(scopes, f) ==
    [s \in DOMAIN scopes |->
        IF f \in DOMAIN scopes[s] THEN Put(scopes[s], f, IntOf(scopes[s][f]))
        ELSE scopes[s]]

RaisesInSome(scopes, f) ==
    \E s \in Holding(scopes, f) : IntRaises(scopes[s][f])

\* a variant that stops at the first match: file scope, then the subdataset scopes,
\* then the band scopes, and only the first scope that holds f is converted
ConvertFieldFirstMatch(md, f) ==
    LET first_of(scopes) == CHOOSE s \in Holding(scopes, f) : TRUE
        only(scopes) ==
            [s \in DOMAIN scopes |->
                IF s = first_of(scopes)
                THEN Put(scopes[s], f, IntOf(scopes[s][f])) ELSE scopes[s]]
    IN  IF f \in DOMAIN md.file
        THEN [error |-> IF IntRaises(md.file[f]) THEN "ValueError" ELSE "none",
              md |-> [md EXCEPT !.file = Put(@, f, IntOf(@[f]))]]
        ELSE IF Holding(md.subdatasets, f) # {}
        THEN [error |-> IF IntRaises(md.subdatasets[first_of(md.subdatasets)][f])
                        THEN "ValueError" ELSE "none",
              md |-> [md EXCEPT !.subdatasets = only(@)]]
        ELSE IF Holding(md.bands, f) # {}
        THEN [error |-> IF IntRaises(md.bands[first_of(md.bands)][f])
                        THEN "ValueError" ELSE "none",
              md |-> [md EXCEPT !.bands = only(@)]]
        ELSE [error |-> "none", md |-> md]

\* one turn of the loop of lines 369-379, for field f
ConvertField(md, f) ==
    IF f \in DOMAIN md.file
    THEN [error |-> IF IntRaises(md.file[f]) THEN "ValueError" ELSE "none",
          md |-> [md EXCEPT !.file = Put(@, f, IntOf(@[f]))]]
    ELSE IF DOMAIN md.subdatasets # {}
    THEN [error |-> IF RaisesInSome(md.subdatasets, f)
                    THEN "ValueError" ELSE "none",
          md |-> [md EXCEPT !.subdatasets = IntInEach(@, f)]]
    ELSE IF DOMAIN md.bands # {}
    THEN [error |-> IF RaisesInSome(md.bands, f) THEN "ValueError" ELSE "none",
          md |-> [md EXCEPT !.bands = IntInEach(@, f)]]
    ELSE [error |-> "none", md |-> md]

\* the loop over int_fields from field i on; an int() that raises ends it
RECURSIVE ParseFields(_, _)
ParseFields(md, i) ==
    IF i > Len(int_fields) THEN [error |-> "none", md |-> md]
    ELSE LET r == ConvertField(md, int_fields[i])
         IN  IF r.error # "none" THEN [error |-> r.error, md |-> md]
             ELSE ParseFields(r.md, i + 1)

_parse_metadata(md) == ParseFields(md, 1)


\* the call of _parse_metadata on a dictionary and its return
ParseCall ==
    /\ p_pc = "call"
    /\ p_out' = _parse_metadata(p_in)
    /\ p_pc' = "done"
    /\ UNCHANGED <<p_in, varsBounds, varsExtract, varsMerge, varsGlobalMeta>>

(***************************************************************************)
(* _extract_metadata.  added is a history variable: the numbers of the     *)
(* lines whose key and value the scan stored.                              *)
(***************************************************************************)
\* lines 295-306
ExtractStart ==
    /\ e_pc = "start"
    /\ LET subdatasets == _extract_subdataset_paths(gdalinfo)
           bands == _extract_band_properties(gdalinfo)
           size == _extract_size(gdalinfo)
       IN  IF subdatasets.error # "none"
           THEN /\ e_pc' = "failed"
                /\ e_err' = subdatasets.error
                /\ UNCHANGED metadata
           ELSE /\ e_pc' = "scan"
                /\ e_err' = "none"
                /\ metadata' =
                     [file |-> (SizeXKey :> size[1]) @@ (SizeYKey :> size[2]),
                      subdatasets |->
                         [sds \in DOMAIN subdatasets.dict |->
                             (PathKey :> StrVal(subdatasets.dict[sds]))],
                      bands |-> bands]
    /\ lineno' = 1
    /\ start_md_line' = FALSE
    /\ UNCHANGED <<gdalinfo, added, varsBounds, varsParse, varsMerge,
                   varsGlobalMeta>>

\* one turn of the loop of lines 307-328, on line lineno
ScanLine ==
    /\ e_pc = "scan"
    /\ lineno <= Len(gdalinfo)
    /\ LET line == gdalinfo[lineno]
           line_obj == KeyValueLine(line)
       IN  IF start_md_line
           THEN IF line_obj.matched
                THEN /\ metadata' = StoreKeyValue(metadata, line_obj.key,
                                                  line_obj.value)
                     /\ added' = added \cup {lineno}
                     /\ UNCHANGED start_md_line
                ELSE /\ start_md_line' = FALSE
                     /\ UNCHANGED <<metadata, added>>
           ELSE /\ start_md_line' = IsMetadataLabel(line)
                /\ UNCHANGED <<metadata, added>>
    /\ lineno' = lineno + 1
    /\ UNCHANGED <<e_pc, gdalinfo, e_err, varsBounds, varsParse, varsMerge,
                   varsGlobalMeta>>

\* lines 329-330, after the last line
ExtractReturn ==
    /\ e_pc = "scan"
    /\ lineno > Len(gdalinfo)
    /\ LET r == _parse_metadata(metadata)
       IN  IF r.error # "none"
           THEN /\ e_pc' = "failed"
                /\ e_err' = r.error
                /\ UNCHANGED metadata
           ELSE /\ e_pc' = "returned"
                /\ metadata' = r.md
                /\ UNCHANGED e_err
    /\ UNCHANGED <<gdalinfo, lineno, start_md_line, added, varsBounds,
                   varsParse, varsMerge, varsGlobalMeta>>

(***************************************************************************)
(* Paths.                                                                  *)
(***************************************************************************)
\* the positions of "/" in path
Slashes(path) == {i \in DOMAIN path : path[i] = "/"}

\* os.path.dirname: what precedes the last "/", without the slashes that end
\* it unless it is all slashes
Dirname(path) ==
    IF Slashes(path) = {} THEN <<>>
    ELSE LET head == SubSeq(path, 1, Max(Slashes(path)))
             other == {i \in DOMAIN head : head[i] # "/"}
         IN  IF other = {} THEN head ELSE SubSeq(head, 1, Max(other))

\* os.path.join(a, b) of a directory and a name with no "/" at its start
Join(a, b) ==
    IF a = <<>> \/ a[Len(a)] = "/" THEN a \o b ELSE a \o <<"/">> \o b

VersionLit == <<"v", "1", "_">>
TifLit == <<"t", "i", "f">>
DotTifLit == <<".", "t", "i", "f">>

\* re.search('v1_(\w+).tif$', path): value is group 1 of the leftmost match.
\* The "." is any character, so a match ends with the three characters before
\* the end being "tif" and everything between "v1_" and the character before
\* them being word characters.
DatasetOf(path) ==
    LET n == Len(path)
        starts == {i \in DOMAIN path :
                     /\ LitAt(path, i, VersionLit)
                     /\ i + 3 <= n - 4
                     /\ \A k \in (i + 3)..(n - 4) : path[k] \in WordChars
                     /\ LitAt(path, n - 2, TifLit)}
    IN  IF starts = {} THEN NoMatch
        ELSE [matched |-> TRUE, key |-> <<>>,
              value |-> SubSeq(path, Min(starts) + 3, n - 4)]

ProductLit == <<"g", "2", "_", "B", "I", "O", "P", "A", "R", "_">>
StampLen == 12

\* re.search(r'g2_BIOPAR_(\w+)_\d{12}', path): value is group 1 of the
\* leftmost match, the longest run of word characters that "_" and twelve
\* digits follow
ProductOf(path) ==
    LET ends(i) == {j \in DOMAIN path :
                      /\ j >= i + Len(ProductLit)
                      /\ \A k \in (i + Len(ProductLit))..j : path[k] \in WordChars
                      /\ j + 1 + StampLen <= Len(path)
                      /\ path[j + 1] = "_"
                      /\ \A k \in (j + 2)..(j + 1 + StampLen) : path[k] \in Digits}
        starts == {i \in DOMAIN path :
                     LitAt(path, i, ProductLit) /\ ends(i) # {}}
    IN  IF starts = {} THEN NoMatch
        ELSE LET i == Min(starts)
             IN  [matched |-> TRUE, key |-> <<>>,
                  value |-> SubSeq(path, i + Len(ProductLit), Max(ends(i)))]

(***************************************************************************)
(* _merge_tiles.  What gdalinfo reports of a file is outside the script:   *)
(* each call of _extract_metadata yields one of Reports.  info_calls and   *)
(* merges are the calls of gdalinfo and of gdal_merge.py made so far.      *)
(***************************************************************************)
Stamp1 == <<"2", "0", "1", "5", "0", "1", "1", "5", "1", "2", "0", "0">>
Stamp2 == <<"2", "0", "1", "5", "0", "1", "1", "6", "1", "2", "0", "0">>

\* a report: whether the metadata holds IMAGE_ACQUISITION_TIME, MISSING_VALUE
\* and SCALING_FACTOR, and their values; time is the acquisition time as
\* strftime('%Y%m%d%H%M') writes it.  A call that raises instead (gdalinfo
\* fails and fabric aborts) is the report Raised.
Report(has_time, time, has_missing, missing, has_scaling, scaling) ==
    [raised |-> FALSE, has_time |-> has_time, time |-> time,
     has_missing |-> has_missing, missing |-> missing,
     has_scaling |-> has_scaling, scaling |-> scaling,
     size_x |-> 7, size_y |-> 2]

Reports ==
    {Report(TRUE, Stamp1, TRUE, -1, TRUE, 1),
     Report(TRUE, Stamp2, TRUE, 0, TRUE, 10),
     Report(FALSE, <<>>, TRUE, -1, TRUE, 1),
     Report(TRUE, Stamp1, FALSE, 0, TRUE, 1),
     Report(TRUE, Stamp1, TRUE, -1, FALSE, 0)}

NoReport == Report(FALSE, <<>>, FALSE, 0, FALSE, 0)
Raised == [NoReport EXCEPT !.raised = TRUE]
Extractions == Reports \cup {Raised}

GlobalLit == <<"/", "g", "l", "o", "b", "a", "l", "_">>

\* line 80: '%s/global_%s_%s_%s.tif' % (output_dir, product, ts, dataset)
OutputPath(output_dir, prod, ts, dataset) ==
    output_dir \o GlobalLit \o prod \o <<"_">> \o ts \o <<"_">> \o dataset
    \o DotTifLit

\* a faulty variant: a group keeps only the path added last
AddToGroupOverwrite(groups, dataset, path) == Put(groups, dataset, <<path>>)

\* lines 70-73
AddToGroup(groups, dataset, path) ==
    IF dataset \in DOMAIN groups
    THEN [groups EXCEPT ![dataset] = Append(@, path)]
    ELSE Put(groups, dataset, <<path>>)

\* line 67, and IndexError for no tiles at all
MergeStart ==
    /\ m_pc = "start"
    /\ IF tiles = <<>>
       THEN m_pc' = "failed" /\ m_err' = "IndexError" /\ UNCHANGED product
       ELSE IF ~ProductOf(tiles[1]).matched
       THEN m_pc' = "failed" /\ m_err' = "AttributeError" /\ UNCHANGED product
       ELSE m_pc' = "group" /\ product' = ProductOf(tiles[1]).value
                            /\ UNCHANGED m_err
    /\ UNCHANGED <<tiles, datasets, idx, info_calls, merges, mosaics,
                   varsBounds, varsExtract, varsParse, varsGlobalMeta>>

\* one turn of the loop of lines 68-73, on tiles[idx]
GroupStep ==
    /\ m_pc = "group"
    /\ idx <= Len(tiles)
    /\ LET dataset == DatasetOf(tiles[idx])
       IN  IF ~dataset.matched
           THEN /\ m_pc' = "failed"
                /\ m_err' = "AttributeError"
                /\ UNCHANGED <<datasets, idx>>
           ELSE /\ datasets' = AddToGroup(datasets, dataset.value, tiles[idx])
                /\ idx' = idx + 1
                /\ UNCHANGED <<m_pc, m_err>>
    /\ UNCHANGED <<tiles, product, info_calls, merges, mosaics,
                   varsBounds, varsExtract, varsParse, varsGlobalMeta>>

\* the groups the loop of lines 74-84 has still to merge
Unmerged == DOMAIN datasets \ {merges[i].dataset : i \in DOMAIN merges}

\* one turn of the loop of lines 74-84, on a group the dictionary yields next
MergeGroup ==
    /\ m_pc = "group"
    /\ idx > Len(tiles)
    /\ \E dataset \in Unmerged, md \in Extractions :
          LET group == datasets[dataset]
              output_path == OutputPath(Dirname(group[1]), product, md.time,
                                        dataset)
          IN  /\ info_calls' = Append(info_calls, group[1])
              /\ IF md.raised
                 THEN /\ m_pc' = "failed"
                      /\ m_err' = "SystemExit"
                      /\ UNCHANGED <<merges, mosaics>>
                 ELSE IF ~md.has_time \/ ~md.has_missing
                 THEN /\ m_pc' = "failed"
                      /\ m_err' = "KeyError"
                      /\ UNCHANGED <<merges, mosaics>>
                 ELSE /\ merges' = Append(merges,
                            [dataset |-> dataset, output_path |-> output_path,
                             a_nodata |-> md.missing, inputs |-> group,
                             md |-> md, md_of |-> group[1]])
                      /\ mosaics' = Append(mosaics, output_path)
                      /\ UNCHANGED <<m_pc, m_err>>
    /\ UNCHANGED <<tiles, product, datasets, idx,
                   varsBounds, varsExtract, varsParse, varsGlobalMeta>>

\* line 85
MergeReturn ==
    /\ m_pc = "group"
    /\ idx > Len(tiles)
    /\ Unmerged = {}
    /\ m_pc' = "returned"
    /\ UNCHANGED <<tiles, product, datasets, idx, m_err, info_calls, merges,
                   mosaics, varsBounds, varsExtract, varsParse, varsGlobalMeta>>

(***************************************************************************)
(* _get_global_meta.  all_files is what os.listdir gives of the directory  *)
(* of global_product; inspected lists the entries the loop has looked at,  *)
(* by their position in all_files.                                         *)
(***************************************************************************)
\* lit occurs somewhere in s
Contains(s, lit) == \E i \in DOMAIN s : LitAt(s, i, lit)

\* re.search(r'_\d{12}_([\w_]+)\.tif$', global_product): value is group 1 of
\* the leftmost match
GlobalDatasetOf(path) ==
    LET n == Len(path)
        starts == {i \in DOMAIN path :
                     /\ path[i] = "_"
                     /\ i + StampLen + 1 <= n
                     /\ \A k \in (i + 1)..(i + StampLen) : path[k] \in Digits
                     /\ path[i + StampLen + 1] = "_"
                     /\ i + StampLen + 2 <= n - 4
                     /\ \A k \in (i + StampLen + 2)..(n - 4) :
                           path[k] \in WordChars
                     /\ LitAt(path, n - 3, DotTifLit)}
    IN  IF starts = {} THEN NoMatch
        ELSE [matched |-> TRUE, key |-> <<>>,
              value |-> SubSeq(path, Min(starts) + StampLen + 2, n - 4)]

\* line 142: re.search(r'v1_%s\.tif' % ds, full_path) finds a match; ds is
\* word characters only, so the pattern is a literal
MatchesDataset(ds, full_path) ==
    Contains(full_path, VersionLit \o ds \o DotTifLit)

\* line 141
FullPath(i) == Join(working_dir, all_files[i])

\* a faulty variant: the count passes over an entry
NextCountSkipping(c) == c + 2

\* line 149
NextCount(c) == c + 1

\* lines 134-139
GlobalMetaStart ==
    /\ g_pc = "start"
    /\ LET ds == GlobalDatasetOf(global_product)
       IN  IF ~ds.matched
           THEN /\ g_pc' = "failed"
                /\ g_err' = "AttributeError"
                /\ UNCHANGED <<global_meta, working_dir>>
           ELSE /\ g_pc' = "loop"
                /\ global_meta' = ("subdataset" :> StrVal(ds.value))
                /\ working_dir' = Dirname(global_product)
                /\ UNCHANGED g_err
    /\ count' = 0
    /\ found_one' = FALSE
    /\ UNCHANGED <<global_product, all_files, meta, inspected,
                   varsBounds, varsExtract, varsParse, varsMerge>>

\* one turn of the loop of lines 140-149, on all_files[count]; the script
\* counts from 0 and the sequence from 1
FindStep ==
    /\ g_pc = "loop"
    /\ ~found_one
    /\ IF count >= Len(all_files)
       THEN /\ g_pc' = "failed"
            /\ g_err' = "IndexError"
            /\ UNCHANGED <<count, found_one, meta, global_meta, inspected>>
       ELSE /\ inspected' = Append(inspected, count + 1)
            /\ IF ~MatchesDataset(global_meta["subdataset"].s,
                                  FullPath(count + 1))
               THEN /\ count' = NextCount(count)
                    /\ UNCHANGED <<g_pc, g_err, found_one, meta, global_meta>>
               ELSE \E r \in Extractions :
                      /\ meta' = r
                      /\ IF r.raised
                         THEN /\ g_pc' = "failed"
                              /\ g_err' = "SystemExit"
                              /\ UNCHANGED <<count, found_one, global_meta>>
                         ELSE IF ~r.has_scaling
                         THEN /\ g_pc' = "failed"
                              /\ g_err' = "KeyError"
                              /\ UNCHANGED <<count, found_one, global_meta>>
                         ELSE IF ~r.has_missing
                         THEN /\ g_pc' = "failed"
                              /\ g_err' = "KeyError"
                              /\ global_meta' =
                                    Put(global_meta, "SCALING_FACTOR",
                                        IntVal(r.scaling))
                              /\ UNCHANGED <<count, found_one>>
                         ELSE /\ global_meta' =
                                    ("SCALING_FACTOR" :> IntVal(r.scaling))
                                    @@ ("MISSING_VALUE" :> IntVal(r.missing))
                                    @@ ("size_x" :> IntVal(r.size_x))
                                    @@ ("size_y" :> IntVal(r.size_y))
                                    @@ global_meta
                              /\ found_one' = TRUE
                              /\ count' = NextCount(count)
                              /\ UNCHANGED <<g_pc, g_err>>
    /\ UNCHANGED <<global_product, working_dir, all_files,
                   varsBounds, varsExtract, varsParse, varsMerge>>

\* line 150
GlobalMetaReturn ==
    /\ g_pc = "loop"
    /\ found_one
    /\ g_pc' = "returned"
    /\ UNCHANGED <<global_product, working_dir, all_files, count, found_one,
                   meta, global_meta, inspected, g_err,
                   varsBounds, varsExtract, varsParse, varsMerge>>

(***************************************************************************)
(* The texts, dictionaries and arguments the specifications start from.    *)
(***************************************************************************)
MaxLines == 4          \* lines of gdalinfo's text
MaxSubdatasets == 2    \* subdataset scopes of a dictionary given to _parse_metadata
MaxBands == 2          \* band scopes of a dictionary given to _parse_metadata

Indent == <<" ", " ">>
NameL == <<"L">>
NameLQ == <<"L", "_", "Q">>
NameLX == <<"L", "X">>
KeyNC == <<"N", "C">>
KeyNL == <<"N", "L">>

\* "  SUBDATASET_1_NAME=h://L" and "  SUBDATASET_2_NAME=h://L_Q"
LineSubL ==
    Indent \o SubdatasetLit \o <<"1">> \o NameLit \o <<"h", ":", "/", "/">> \o NameL
LineSubLQ ==
    Indent \o SubdatasetLit \o <<"2">> \o NameLit \o <<"h", ":", "/", "/">> \o NameLQ
\* "  Metadata:"
LineLabel == Indent \o MetadataLabel
\* "  L_Q_NC=7", "  NC=-1" and "  LX=5"
LineLQNC == Indent \o NameLQ \o <<"_">> \o KeyNC \o <<"=", "7">>
LineNC == Indent \o KeyNC \o <<"=", "-", "1">>
LineLX == Indent \o NameLX \o <<"=", "5">>
\* "Size is 7, 2"
LineSize == SizeLit \o <<"7", ",", " ", "2">>
\* "Band 1 Block=7x1 Type=Byte,"
LineBand ==
    BandLit \o <<"1">> \o BlockLit \o <<"7", "x", "1">> \o TypeLit
    \o <<"B", "y", "t", "e", ",">>

LinePool == {LineSubL, LineSubLQ, LineLabel, LineLQNC, LineNC, LineLX,
             LineSize, LineBand}

Texts == UNION {[1..n -> LinePool] : n \in 0..MaxLines}

\* scopes of the dictionaries given to _parse_metadata
FileChoices ==
    LET none == (SizeXKey :> IntVal(0)) @@ (SizeYKey :> IntVal(0))
        size == (SizeXKey :> StrVal(<<"7">>)) @@ (SizeYKey :> StrVal(<<"2">>))
    IN  {none, Put(none, KeyNC, StrVal(<<"-", "1">>)),
         Put(size, KeyNL, StrVal(<<"3">>)), Put(none, KeyNC, StrVal(<<"x">>))}
SdsChoices(name) ==
    LET path == (PathKey :> StrVal(<<"h", ":", "/", "/">> \o name))
    IN  {path, Put(path, KeyNC, StrVal(<<"7">>)),
         Put(Put(path, KeyNC, StrVal(<<"1", "2">>)), KeyNL, StrVal(<<" ", "3">>)),
         Put(path, KeyNC, StrVal(<<"x">>))}
BandChoices(name) ==
    LET dtype == (DtypeKey :> StrVal(<<"B", "y", "t", "e">>))
    IN  {dtype, Put(dtype, KeyNC, StrVal(<<"+", "7">>))}

SdsNames == <<NameL, NameLQ, NameLX, <<"Q">> >>
BandNames == << <<"1">>, <<"2">>, <<"3">>, <<"4">> >>

\* the subdatasets dictionaries: scopes named by some of the first
\* MaxSubdatasets of SdsNames, the scope of a name being one of its choices
SdsDicts ==
    UNION {{d \in [{SdsNames[i] : i \in S} ->
                      UNION {SdsChoices(SdsNames[i]) : i \in S}] :
               \A k \in DOMAIN d : d[k] \in SdsChoices(k)} :
           S \in SUBSET (1..MaxSubdatasets)}

\* the bands dictionaries, likewise
BandDicts ==
    UNION {{d \in [{BandNames[i] : i \in S} ->
                      UNION {BandChoices(BandNames[i]) : i \in S}] :
               \A k \in DOMAIN d : d[k] \in BandChoices(k)} :
           S \in SUBSET (1..MaxBands)}

IdleBounds ==
    /\ b_pc = "idle"
    /\ b_args = [first_lon |-> 0, first_lat |-> 0, n_cols |-> 0, n_lines |-> 0,
                 pixel_size |-> 0]
    /\ b_result = NoBounds
IdleExtract ==
    /\ e_pc = "idle"
    /\ gdalinfo = <<>>
    /\ lineno = 1
    /\ start_md_line = FALSE
    /\ metadata = NoMetadata
    /\ e_err = "none"
    /\ added = {}
IdleParse ==
    /\ p_pc = "idle"
    /\ p_in = NoMetadata
    /\ p_out = [error |-> "none", md |-> NoMetadata]
IdleMerge ==
    /\ m_pc = "idle"
    /\ tiles = <<>>
    /\ product = <<>>
    /\ datasets = EmptyDict
    /\ idx = 1
    /\ m_err = "none"
    /\ info_calls = <<>>
    /\ merges = <<>>
    /\ mosaics = <<>>
IdleGlobalMeta ==
    /\ g_pc = "idle"
    /\ global_product = <<>>
    /\ working_dir = <<>>
    /\ all_files = <<>>
    /\ count = 0
    /\ found_one = FALSE
    /\ meta = NoReport
    /\ global_meta = EmptyDict
    /\ inspected = <<>>
    /\ g_err = "none"

InitBounds ==
    /\ b_pc = "call"
    /\ b_args \in BoundsArgs
    /\ b_result = NoBounds
    /\ IdleExtract /\ IdleParse /\ IdleMerge /\ IdleGlobalMeta
NextBounds == CalculateBounds
SpecBounds == InitBounds /\ [][NextBounds]_vars

InitExtract ==
    /\ e_pc = "start"
    /\ gdalinfo \in Texts
    /\ lineno = 1
    /\ start_md_line = FALSE
    /\ metadata = NoMetadata
    /\ e_err = "none"
    /\ added = {}
    /\ IdleBounds /\ IdleParse /\ IdleMerge /\ IdleGlobalMeta
NextExtract == ExtractStart \/ ScanLine \/ ExtractReturn
SpecExtract == InitExtract /\ [][NextExtract]_vars

InitParse ==
    /\ p_pc = "call"
    /\ \E b \in BandDicts :
       \E s \in SdsDicts :
       \E f \in FileChoices :
          p_in = [file |-> f, subdatasets |-> s, bands |-> b]
    /\ p_out = [error |-> "none", md |-> NoMetadata]
    /\ IdleBounds /\ IdleExtract /\ IdleMerge /\ IdleGlobalMeta
NextParse == ParseCall
SpecParse == InitParse /\ [][NextParse]_vars

MaxTiles == 3          \* paths given to _merge_tiles

DirD == <<"/", "d", "/">>
DirE == <<"/", "e", "/">>
ProductLST == <<"L", "S", "T">>
ProductLAI == <<"L", "A", "I">>
GeoV1Lit == <<"_", "G", "E", "O", "_", "v", "1">>

\* <dir>g2_BIOPAR_<product>_201501151200_<tile>_GEO_v1, the name of a tile
\* without its extension
Stem(dir, prod, tile) ==
    dir \o ProductLit \o prod \o <<"_">> \o Stamp1 \o <<"_">> \o tile \o GeoV1Lit

\* the outputs of _georeference_tiles for subdatasets Q and L of tiles A and B
TileAQ == Stem(DirD, ProductLST, <<"A">>) \o <<"_", "Q">> \o DotTifLit
TileBQ == Stem(DirD, ProductLST, <<"B">>) \o <<"_", "Q">> \o DotTifLit
TileAL == Stem(DirD, ProductLST, <<"A">>) \o <<"_", "L">> \o DotTifLit
\* a tile of another product in another directory
TileLAI == Stem(DirE, ProductLAI, <<"A">>) \o <<"_", "L">> \o DotTifLit
\* ..._GEO_v1.tif: no subdataset after the version
TileNoName == Stem(DirD, ProductLST, <<"A">>) \o DotTifLit
\* ..._GEO_v1_Qxtif: no "." before tif
TileNoDot == Stem(DirD, ProductLST, <<"B">>) \o <<"_", "Q", "x">> \o TifLit
\* /d/x_v1_Q.tif: no product and time before the version
TileNoProduct == DirD \o <<"x", "_">> \o VersionLit \o <<"Q">> \o DotTifLit

TilePool == {TileAQ, TileBQ, TileAL, TileLAI, TileNoName, TileNoDot,
             TileNoProduct}

TileLists == UNION {[1..n -> TilePool] : n \in 0..MaxTiles}

InitMerge ==
    /\ m_pc = "start"
    /\ tiles \in TileLists
    /\ product = <<>>
    /\ datasets = EmptyDict
    /\ idx = 1
    /\ m_err = "none"
    /\ info_calls = <<>>
    /\ merges = <<>>
    /\ mosaics = <<>>
    /\ IdleBounds /\ IdleExtract /\ IdleParse /\ IdleGlobalMeta
NextMerge == MergeStart \/ GroupStep \/ MergeGroup \/ MergeReturn
SpecMerge == InitMerge /\ [][NextMerge]_vars

MaxListing == 3        \* entries of the directory _get_global_meta lists

\* the mosaics of subdatasets Q and L that _merge_tiles writes to /d
GlobalQ == OutputPath(<<"/", "d">>, ProductLST, Stamp1, <<"Q">>)
GlobalL == OutputPath(<<"/", "d">>, ProductLST, Stamp1, <<"L">>)
\* /d/global.tif: no time and subdataset in the name
GlobalNoName == DirD \o <<"g", "l", "o", "b", "a", "l">> \o DotTifLit

GlobalPool == {GlobalQ, GlobalL, GlobalNoName}

AuxLit == <<".", "a", "u", "x", ".", "x", "m", "l">>

\* what /d holds: the tiles, a mosaic, and the statistics file GDAL leaves
\* beside a tile
EntryPool ==
    {Slice(TileAQ, Len(DirD) + 1, Len(TileAQ)),
     Slice(TileBQ, Len(DirD) + 1, Len(TileBQ)),
     Slice(TileAL, Len(DirD) + 1, Len(TileAL)),
     Slice(GlobalQ, Len(DirD) + 1, Len(GlobalQ)),
     Slice(TileAQ, Len(DirD) + 1, Len(TileAQ)) \o AuxLit}

\* listings: the entries of a directory in any order, each once
Listings ==
    UNION {{l \in [1..n -> EntryPool] :
              \A i, j \in 1..n : l[i] = l[j] => i = j} : n \in 0..MaxListing}

InitGlobalMeta ==
    /\ g_pc = "start"
    /\ global_product \in GlobalPool
    /\ working_dir = <<>>
    /\ all_files \in Listings
    /\ count = 0
    /\ found_one = FALSE
    /\ meta = NoReport
    /\ global_meta = EmptyDict
    /\ inspected = <<>>
    /\ g_err = "none"
    /\ IdleBounds /\ IdleExtract /\ IdleParse /\ IdleMerge
NextGlobalMeta == GlobalMetaStart \/ FindStep \/ GlobalMetaReturn
\* the script runs on until it returns or raises
SpecGlobalMeta ==
    InitGlobalMeta /\ [][NextGlobalMeta]_vars /\ WF_vars(NextGlobalMeta)

(***************************************************************************)
(* Properties of _calculate_bounds, checked under SpecBounds.              *)
(***************************************************************************)
ValidGeometry(a) == a.pixel_size > 0 /\ a.n_cols > 0 /\ a.n_lines > 0

C2_Step ==
    LET a == b_args
        r == b_result'.bounds
    IN  (b_pc = "call" /\ b_pc' = "done" /\ ValidGeometry(a)) =>
            /\ b_result'.returned
            /\ b_result'.error = "none"
            \* the upper-left edge is half a pixel west and north of the
            \* first pixel's centre
            /\ Den * a.first_lon - r[1] = a.pixel_size
            /\ r[2] - Den * a.first_lat = a.pixel_size
            \* the lower-right edge is the whole extent further on
            /\ r[3] - r[1] = Den * (a.n_cols * a.pixel_size)
            /\ r[2] - r[4] = Den * (a.n_lines * a.pixel_size)
            /\ r[2] > r[4]
            /\ r[1] < r[3]
            /\ UNCHANGED <<b_args, varsExtract, varsParse, varsMerge,
                           varsGlobalMeta>>

\* C2: for pixel_size > 0, n_cols > 0 and n_lines > 0, _calculate_bounds
\* returns ul_lon = first_lon - pixel_size/2, ul_lat = first_lat +
\* pixel_size/2, lr_lon = ul_lon + n_cols*pixel_size and lr_lat = ul_lat -
\* n_lines*pixel_size, so that ul_lat > lr_lat and ul_lon < lr_lon, and the
\* call changes nothing but its result.
C2_BoundsFromPixelCentre == [][C2_Step]_vars

\* a call has returned bounds whose lower-right longitude is not the
\* multiplicative form's
C2_Witness ==
    /\ b_pc = "done"
    /\ ValidGeometry(b_args)
    /\ b_result.returned
    /\ b_result.bounds[3] > b_result.bounds[1]
    /\ b_result.bounds[3] # b_result.bounds[1] * b_args.n_cols

\* C3: every call of the bounds computation with pixel_size <= 0, n_cols <= 0
\* or n_lines <= 0 fails with an InvalidGeometryError and returns no bounds.
C3_InvalidGeometryRejected ==
    (b_pc = "done" /\ ~ValidGeometry(b_args)) =>
        (b_result.error = "InvalidGeometryError" /\ ~b_result.returned)

(***************************************************************************)
(* Properties of _extract_metadata, checked under SpecExtract.             *)
(***************************************************************************)
\* the step of ScanLine that stores the key and value of line lineno
StoresLine ==
    /\ e_pc = "scan"
    /\ lineno <= Len(gdalinfo)
    /\ lineno' = lineno + 1
    /\ start_md_line
    /\ KeyValueLine(gdalinfo[lineno]).matched

\* key is the name S followed by "_" and a remainder
PrefixedBy(key, S) == LitAt(key, 1, S \o <<"_">>)
Remainder(key, S) == Slice(key, Len(S) + 2, Len(key))

C1_Step ==
    LET kv == KeyValueLine(gdalinfo[lineno])
        names == DOMAIN metadata.subdatasets
    IN  StoresLine =>
            /\ \A S \in names :
                  PrefixedBy(kv.key, S) =>
                     /\ Remainder(kv.key, S) \in DOMAIN metadata'.subdatasets[S]
                     /\ metadata'.subdatasets[S][Remainder(kv.key, S)]
                           = StrVal(kv.value)
                     /\ kv.key \notin DOMAIN metadata'.file
            /\ (\A S \in names : ~PrefixedBy(kv.key, S)) =>
                     /\ kv.key \in DOMAIN metadata'.file
                     /\ metadata'.file[kv.key] = StrVal(kv.value)
                     /\ metadata'.subdatasets = metadata.subdatasets

\* C1: a key of a metadata block that is a discovered subdataset's name S, "_"
\* and a remainder R is stored as R in subdatasets[S] and not at file scope; a
\* key prefixed by no discovered name and "_" is stored at file scope under
\* its full name and in no subdataset scope.
C1_PrefixDisambiguation == [][C1_Step]_vars

C8_Step ==
    StoresLine =>
        Cardinality({S \in DOMAIN metadata.subdatasets :
                        metadata'.subdatasets[S] # metadata.subdatasets[S]}) <= 1

\* C8: the value of a key=value line of a metadata block is stored in the
\* scope of at most one subdataset, also when several discovered names are
\* prefixes of the key.
C8_AtMostOneSubdataset == [][C8_Step]_vars

\* line i follows a "Metadata:" label with only key=value lines in between
InBlock(text, i) ==
    \E j \in 1..(i - 1) :
        /\ IsMetadataLabel(text[j])
        /\ \A k \in (j + 1)..(i - 1) : KeyValueLine(text[k]).matched

\* C9: of the lines scanned so far, those added to the parsed attributes are
\* the key=value lines inside a metadata block: the ones that follow a
\* "Metadata:" label with only key=value lines in between; and the scan
\* itself raises no error.
C9_TwoStateScan ==
    e_pc = "scan" =>
        /\ e_err = "none"
        /\ \A i \in 1..(lineno - 1) :
              i \in added <=>
                 (KeyValueLine(gdalinfo[i]).matched /\ InBlock(gdalinfo, i))

(***************************************************************************)
(* Properties of _parse_metadata, checked under SpecParse.                 *)
(***************************************************************************)
IntFieldNames == Range(int_fields)

\* scope out is scope in with field f converted by int()
ConvertedAt(in, out, f) == out = Put(in, f, IntOf(in[f]))

\* the scopes s of nested dictionary in that are converted at f in out, and
\* whether all the others are as they were
OnlyConverted(in, out, f, S) ==
    /\ DOMAIN out = DOMAIN in
    /\ \A s \in S : ConvertedAt(in[s], out[s], f)
    /\ \A s \in DOMAIN in \ S : out[s] = in[s]

\* out has the scopes and the keys of in, and the values of in under every
\* key that is no registered integer field
SameShape(in, out) ==
    /\ DOMAIN out = DOMAIN in
    /\ \A s \in DOMAIN in :
          /\ DOMAIN out[s] = DOMAIN in[s]
          /\ \A k \in DOMAIN in[s] \ Range(int_fields) : out[s][k] = in[s][k]

\* the values of field f that the search of the code reaches
Searched(md, f) ==
    IF f \in DOMAIN md.file THEN {md.file[f]}
    ELSE IF DOMAIN md.subdatasets # {}
    THEN {md.subdatasets[s][f] : s \in Holding(md.subdatasets, f)}
    ELSE {md.bands[s][f] : s \in Holding(md.bands, f)}

C4_Original(in, out, f) ==
    LET untouched(a, b) == \A s \in DOMAIN a : b[s] = a[s]
        one(a, b) == \E s \in Holding(a, f) : OnlyConverted(a, b, f, {s})
    IN  IF f \in DOMAIN in.file
        THEN /\ out.file[f] = IntOf(in.file[f])
             /\ untouched(in.subdatasets, out.subdatasets)
             /\ untouched(in.bands, out.bands)
        ELSE IF Holding(in.subdatasets, f) # {}
        THEN /\ one(in.subdatasets, out.subdatasets)
             /\ untouched(in.bands, out.bands)
        ELSE IF Holding(in.bands, f) # {}
        THEN /\ untouched(in.subdatasets, out.subdatasets)
             /\ one(in.bands, out.bands)
        ELSE /\ f \notin DOMAIN out.file
             /\ untouched(in.subdatasets, out.subdatasets)
             /\ untouched(in.bands, out.bands)

\* the dictionary in, restricted to the one field f
OneField(md, f) ==
    [file |-> [k \in DOMAIN md.file \cap {f} |-> md.file[k]],
     subdatasets |-> [s \in DOMAIN md.subdatasets |->
                        [k \in DOMAIN md.subdatasets[s] \cap {f} |->
                            md.subdatasets[s][k]]],
     bands |-> [s \in DOMAIN md.bands |->
                        [k \in DOMAIN md.bands[s] \cap {f} |-> md.bands[s][k]]]]

C4_Amended(in, out, f) ==
    LET untouched(a, b) == \A s \in DOMAIN a : b[s] = a[s]
    IN  IF f \in DOMAIN in.file
        THEN /\ out.file[f] = IntOf(in.file[f])
             /\ untouched(in.subdatasets, out.subdatasets)
             /\ untouched(in.bands, out.bands)
        ELSE IF DOMAIN in.subdatasets # {}
        THEN /\ OnlyConverted(in.subdatasets, out.subdatasets, f,
                              Holding(in.subdatasets, f))
             /\ untouched(in.bands, out.bands)
        ELSE /\ f \notin DOMAIN out.file
             /\ OnlyConverted(in.bands, out.bands, f, Holding(in.bands, f))

Basename(path) ==
    IF Slashes(path) = {} THEN path
    ELSE Slice(path, Max(Slashes(path)) + 1, Len(path))

\* the identifiers id such that the file name of path ends with v1_<id>.tif,
\* with a literal "."
Identifiers(path) ==
    LET name == Basename(path)
        n == Len(name)
    IN  {SubSeq(name, i + 3, n - 4) : i \in
           {i \in DOMAIN name :
              /\ LitAt(name, i, VersionLit)
              /\ i + 3 <= n - 4
              /\ \A k \in (i + 3)..(n - 4) : name[k] \in WordChars
              /\ LitAt(name, n - 3, DotTifLit)}}

NamedAsExpected(path) == Identifiers(path) # {}

\* the longest identifier of a name, the input the leftmost match captures
IdentifierOf(path) ==
    CHOOSE id \in Identifiers(path) :
        \A other \in Identifiers(path) : Len(other) <= Len(id)

\* the paths of s are in one group each, the group of their own identifier,
\* in the order they have in s
GroupedByIdentifier(s) ==
    /\ DOMAIN datasets = {IdentifierOf(s[i]) : i \in DOMAIN s}
    /\ \A k \in DOMAIN datasets :
          datasets[k] = SelectSeq(s, LAMBDA q : IdentifierOf(q) = k)

AllNamedAsExpected == \A i \in DOMAIN tiles : NamedAsExpected(tiles[i])

\* C5 as stated: a call on paths that are all named ..v1_<identifier>.tif
\* ends with every path in exactly one group, that of its own identifier,
\* the members of a group in input order.
C5_GroupedWhenAllNamed ==
    (m_pc \in {"returned", "failed"} /\ AllNamedAsExpected) =>
        GroupedByIdentifier(tiles)

\* C5, amended: when moreover the first path holds g2_BIOPAR_<product>_ and
\* twelve digits, the grouping does not fail, and the groups built so far
\* partition the paths read so far by the identifier of their own file name:
\* the keys are the identifiers that occur, and the group of a key is the
\* subsequence of the paths with that identifier, in input order.  gdalinfo
\* is not called before every path is grouped.
C5_GroupsPartitionByIdentifier ==
    (/\ AllNamedAsExpected
     /\ tiles # <<>>
     /\ ProductOf(tiles[1]).matched) =>
        /\ idx <= Len(tiles) + 1
        /\ GroupedByIdentifier(Slice(tiles, 1, idx - 1))
        /\ idx <= Len(tiles) => (info_calls = <<>> /\ m_pc \in {"start", "group"})
        /\ m_pc = "returned" => GroupedByIdentifier(tiles)

\* three paths were grouped and merged, the first and the third in one group
\* and the second in another
C5_Witness ==
    /\ m_pc = "returned"
    /\ Len(tiles) = 3
    /\ \A i \in DOMAIN tiles : NamedAsExpected(tiles[i])
    /\ \E k, l \in DOMAIN datasets :
          /\ k # l
          /\ datasets[k] = <<tiles[1], tiles[3]>>
          /\ tiles[1] # tiles[3]
          /\ datasets[l] = <<tiles[2]>>

\* C6: when some path of the input is not named ..v1_<identifier>.tif, the
\* call does not return and gdal_merge.py is run for no group.
C6_NoMergeOnBadName ==
    (\E i \in DOMAIN tiles : ~NamedAsExpected(tiles[i])) =>
        /\ m_pc # "returned"
        /\ merges = <<>>
        /\ mosaics = <<>>

\* the first path of the input that the grouping puts under dataset
FirstOfGroup(dataset) ==
    tiles[Min({i \in DOMAIN tiles :
                 DatasetOf(tiles[i]).matched
                 /\ DatasetOf(tiles[i]).value = dataset})]

\* C7: each run of gdal_merge.py takes the metadata of the first path of its
\* group, and names the output and sets the missing value from the product,
\* the acquisition time and the missing value of that path.
C7_RepresentativeIsFirstOfGroup ==
    \A i \in DOMAIN merges :
        LET m == merges[i]
            first == FirstOfGroup(m.dataset)
        IN  ProductOf(first).matched =>
                /\ m.md_of = first
                /\ m.a_nodata = m.md.missing
                /\ m.output_path = OutputPath(Dirname(first),
                                              ProductOf(first).value,
                                              m.md.time, m.dataset)

(***************************************************************************)
(* Properties of _get_global_meta, checked under SpecGlobalMeta.           *)
(***************************************************************************)
\* the positions of the entries of the listing whose path matches the
\* subdataset of global_product
Matching ==
    {i \in DOMAIN all_files :
        MatchesDataset(GlobalDatasetOf(global_product).value,
                       Join(Dirname(global_product), all_files[i]))}

Ended == g_pc \in {"returned", "failed"}

\* the loop looked at the entries in listing order, each once, up to the
\* first that matches and no further
InspectedUpToFirstMatch ==
    /\ inspected = [i \in 1..Len(inspected) |-> i]
    /\ Len(inspected) <= Len(all_files)
    /\ \A i \in 1..(Len(inspected) - 1) : i \notin Matching

\* the call returned the four fields that gdalinfo reported of the first
\* matching entry
ReturnedOfFirstMatch ==
    /\ g_pc = "returned"
    /\ Matching # {}
    /\ Len(inspected) = Min(Matching)
    /\ ~meta.raised /\ meta.has_scaling /\ meta.has_missing
    /\ global_meta =
          ("subdataset" :> StrVal(GlobalDatasetOf(global_product).value))
          @@ ("SCALING_FACTOR" :> IntVal(meta.scaling))
          @@ ("MISSING_VALUE" :> IntVal(meta.missing))
          @@ ("size_x" :> IntVal(meta.size_x))
          @@ ("size_y" :> IntVal(meta.size_y))

\* C10 as stated: the call ends by returning the fields of the first matching
\* entry when some entry matches, and by IndexError after looking at every
\* entry when none does.
C10_ReturnsOrIndexError ==
    (Ended /\ GlobalDatasetOf(global_product).matched) =>
        /\ InspectedUpToFirstMatch
        /\ IF Matching # {}
           THEN ReturnedOfFirstMatch
           ELSE /\ g_pc = "failed"
                /\ g_err = "IndexError"
                /\ Len(inspected) = Len(all_files)

C10_Outcomes ==
    GlobalDatasetOf(global_product).matched =>
        /\ InspectedUpToFirstMatch
        /\ Len(inspected) \in {count, count + 1}
        /\ Ended =>
              IF Matching = {}
              THEN /\ g_pc = "failed"
                   /\ g_err = "IndexError"
                   /\ Len(inspected) = Len(all_files)
              ELSE \/ ReturnedOfFirstMatch
                   \/ /\ g_pc = "failed"
                      /\ g_err = "KeyError"
                      /\ Len(inspected) = Min(Matching)
                      /\ ~meta.raised
                      /\ ~meta.has_scaling \/ ~meta.has_missing
                   \/ /\ g_pc = "failed"
                      /\ g_err = "SystemExit"
                      /\ Len(inspected) = Min(Matching)
                      /\ meta.raised

\* C10, amended: for a global_product named .._<12 digits>_<subdataset>.tif
\* the call ends, having looked at the entries in listing order, each once,
\* up to the first that matches.  When no entry matches it ends by IndexError
\* after the last entry.  When some entry matches it ends at the first such
\* entry: by returning the four fields reported of it, by KeyError when the
\* report lacks SCALING_FACTOR or MISSING_VALUE, or by the failure of the
\* call that reads the entry.
C10_LookupEnds == []C10_Outcomes /\ <>Ended

\* the call returned the fields of the second entry of three, the first not
\* matching and the third matching too
C10_Witness ==
    /\ ReturnedOfFirstMatch
    /\ Len(all_files) = 3
    /\ Matching = {2, 3}
    /\ inspected = <<1, 2>>

==========================================================================
